---- MODULE Spec2Model ----
(***************************************************************************)
(* Verification core of FlipperBot: the pending registries of              *)
(* auth_manager.py (AuthManager), the two callback coroutines that run on  *)
(* the bot's event loop, the role mutator, and the Flask /callback         *)
(* endpoint of keep_alive.py with its two rate limiters.                   *)
(*                                                                         *)
(* Time is counted in ticks of 0.1 s, the finest step the code uses        *)
(* (the 0.1 s buffer of apply_global_rate_limit).                          *)
(*                                                                         *)
(* The event loop runs one coroutine at a time and switches only at an     *)
(* await, so every bot-loop action below is the code between two awaits.   *)
(* The HTTP server runs in its own thread with threaded=False: requests    *)
(* are served one after the other, and the handler's position is http.pc.  *)
(***************************************************************************)
EXTENDS Integers, Sequences, FiniteSets, TLC

\* ---------------------------------------------------------------- bounds
\* tokens uuid4 can return, callbacks served in Spec and in SpecEndpoint,
\* jumps of the clock, Discord role calls that raise, admin commands invoked
MaxTokens == 2
MaxRequests == 2
MaxLimiterRequests == 6
MaxAdvances == 1
MaxFaults == 1
MaxCommands == 3

\* ------------------------------------------------------ program constants
\* keep_alive.py, in ticks of 0.1 s where they are durations
MAX_CALLBACKS == 5
TIME_WINDOW == 1200
MIN_REQUEST_INTERVAL == 10
RATE_LIMIT_BUFFER == 1
INITIAL_REQUEST_AGE == 50
PROCESSING_DELAY == 10
RESULT_TIMEOUT == 5
RESPONSE_DELAY == 5
\* the TTL of a pending OTP entry, 10 minutes (the code stores created_at
\* and never reads it: the value is the one the design documents)
OTP_TTL == 6000
\* the life of a login link as the login embed announces it
\* ("This link will expire in 10 minutes")
OAUTH_LINK_TTL == 6000

\* Python's None / a falsy value (user ids and tokens are positive)
None == 0

Users == {1, 2}
Tokens == 1..MaxTokens
IPs == {"ip1", "ip2"}
Guilds == {1, 2}
VERIFIED == "Verified"
UNVERIFIED == "Unverified"

VARIABLES
    now,                \* the wall clock, in ticks
    advances,           \* number of explicit clock jumps so far
    faults,             \* number of Discord role calls that raised so far
    bot_loop,           \* keep_alive.bot_loop: None or "loop"
    auth_manager,       \* keep_alive.auth_manager: None or "manager"
    server_started,     \* the Flask thread runs
    callback_tracker,   \* ip -> accepted timestamps inside the window
    last_request_time,  \* keep_alive.last_request_time
    accepted,           \* history: ip -> every timestamp that passed the limiter
    nreq,               \* number of requests received
    http,               \* the request the HTTP thread serves or served last
    pending_oauth,      \* AuthManager.pending_oauth: token -> user id (None: absent)
    pending_otps,       \* AuthManager.pending_otps: user id -> entry (flow_id None: absent)
    issued,             \* history: token -> the kind and the user it was generated for,
                        \* the URL returned with it and, for a login link, whether it
                        \* has been pending for longer than OAUTH_LINK_TTL
    jobs,               \* coroutines submitted to the bot loop, in order; entry_expired
                        \* notes whether the entry found was older than its TTL
    guild_roles,        \* guild -> names of the marker roles that exist
    member_roles,       \* guild -> member -> marker roles held
    admin_channel,      \* what bot.get_channel(admin_channel_id) returns
    admin_msgs,         \* embeds delivered to the admin channel
    config,             \* ConfigManager.config: access lists and channel settings
    admin_log,          \* embeds AdminCommands._log_to_admin_channel has sent
    response            \* the answer to the admin command invoked last

vars == <<now, advances, faults, bot_loop, auth_manager, server_started, callback_tracker,
          last_request_time, accepted, nreq, http, pending_oauth, pending_otps,
          issued, jobs, guild_roles, member_roles, admin_channel, admin_msgs,
          config, admin_log, response>>

serverVars == <<bot_loop, auth_manager, server_started, callback_tracker,
                last_request_time, accepted, nreq>>
httpVars == <<serverVars, http>>
registryVars == <<pending_oauth, pending_otps, issued>>
discordVars == <<faults, guild_roles, member_roles, admin_channel, admin_msgs>>
adminVars == <<config, admin_log, response>>

\* members of each guild the bot is in
GuildMembers(g) == IF g = 1 THEN Users ELSE {1}

NoEntry == [flow_id |-> None, created_at |-> 0]
\* the authorize URL built from auth_params, by its parameters that vary (a
\* uuid has no character that requests.utils.quote would change)
AuthUrl(state, extra) == [state |-> state, prompt |-> "login", extra |-> extra]
NoIssue == [kind |-> "free", user |-> None, url |-> AuthUrl(None, "none"),
            overdue |-> FALSE]

\* the settings set_channel can write, by the value of channel_type
ChannelTypes == {"flip_alerts", "announcements", "admin_logs", "logs"}

\* the configuration the bot starts with: an owner, no further admin, nobody
\* blacklisted, no channel set
OWNER == 1
InitialConfig ==
    [owner_id |-> OWNER, admin_ids |-> {}, blacklisted_users |-> {},
     channels |-> [c \in ChannelTypes |-> None]]

NoResponse ==
    [seq |-> 0, command |-> "none", invoker |-> None, text |-> "none",
     ephemeral |-> FALSE, written |-> FALSE, logged |-> FALSE]

IdleHttp ==
    [pc |-> "idle", ip |-> "ip1", code |-> None, state |-> None, gap |-> 0,
     passed |-> FALSE,
     scan_broken |-> FALSE, is_otp |-> FALSE, job |-> 0, waited |-> 0,
     status |-> 0, body |-> "none"]

Init ==
    /\ now = 0
    /\ advances = 0
    /\ faults = 0
    /\ bot_loop = "None"
    /\ auth_manager = "None"
    /\ server_started = FALSE
    /\ callback_tracker = [ip \in IPs |-> <<>>]
    /\ last_request_time = 0 - INITIAL_REQUEST_AGE
    /\ accepted = [ip \in IPs |-> <<>>]
    /\ nreq = 0
    /\ http = IdleHttp
    /\ pending_oauth = [t \in Tokens |-> None]
    /\ pending_otps = [u \in Users |-> NoEntry]
    /\ issued = [t \in Tokens |-> NoIssue]
    /\ jobs = <<>>
    /\ guild_roles = [g \in Guilds |-> IF g = 1 THEN {UNVERIFIED} ELSE {}]
    /\ member_roles = [g \in Guilds |->
                          [u \in GuildMembers(g) |-> IF g = 1 THEN {UNVERIFIED} ELSE {}]]
    /\ admin_channel \in {"None", "channel"}
    /\ admin_msgs = {}
    /\ config = InitialConfig
    /\ admin_log = {}
    /\ response = NoResponse


\* ------------------------------------------------------------ registry
\* uuid.uuid4(): a token no earlier call returned (the lowest unused one)
HasFreshToken == \E t \in Tokens : issued[t].kind = "free"
\* a generator that returns the same value again
uuid4Repeated == CHOOSE t \in Tokens : \A s \in Tokens : t <= s

uuid4 == CHOOSE t \in Tokens :
            /\ issued[t].kind = "free"
            /\ \A s \in Tokens : s < t => issued[s].kind # "free"

\* generate_auth_url(user_id): pending_oauth[state] = user_id
generate_auth_url(user_id) ==
    /\ HasFreshToken
    /\ pending_oauth' = [pending_oauth EXCEPT ![uuid4] = user_id]
    /\ issued' = [issued EXCEPT ![uuid4] = [kind |-> "oauth", user |-> user_id,
                                            url |-> AuthUrl(uuid4, "none"),
                                            overdue |-> FALSE]]
    /\ UNCHANGED <<adminVars, now, advances, httpVars, pending_otps, jobs, discordVars>>

\* _send_admin_verification: the embed is sent to the admin channel, unless the
\* channel id is unset or the channel is not found (logged, nothing raised)
AdminSend(msgs, msg, channel) == IF channel # "None" THEN msgs \cup {msg} ELSE msgs

\* pending_otps gains or loses a key on the bot loop while the HTTP thread
\* iterates over it: the iterator's next step raises RuntimeError
\* ("dictionary changed size during iteration")
SizeChanged(h) ==
    IF h.pc = "scanning" THEN [h EXCEPT !.scan_broken = TRUE] ELSE h

\* start_otp_verification(member, nickname, email): the entry is keyed by the
\* user id, then the attempt is logged to the admin channel with the flow id
start_otp_verification(user_id) ==
    /\ HasFreshToken
    /\ http' = IF pending_otps[user_id].flow_id = None THEN SizeChanged(http) ELSE http
    /\ pending_otps' = [pending_otps EXCEPT
                          ![user_id] = [flow_id |-> uuid4, created_at |-> now]]
    /\ issued' = [issued EXCEPT ![uuid4] = [kind |-> "otp", user |-> user_id,
                                            url |-> AuthUrl(uuid4, "amr_values=mfa"),
                                            overdue |-> FALSE]]
    /\ admin_msgs' = AdminSend(admin_msgs,
                               [type |-> "OTP Start", user |-> user_id,
                                token |-> uuid4, job |-> 0], admin_channel)
    /\ UNCHANGED <<adminVars, now, advances, serverVars, pending_oauth, jobs, faults, guild_roles,
                   member_roles, admin_channel>>

\* a lookup in place of the pop: "self.pending_oauth.get(state)"
PopOAuthKeep(registry, state) ==
    [value |-> registry[state], registry |-> registry]

\* self.pending_oauth.pop(state, None)
PopOAuth(registry, state) ==
    [value |-> registry[state], registry |-> [registry EXCEPT ![state] = None]]

\* a scan that takes the first pending entry without comparing its flow id
OtpLookupAnyEntry(otps, state) ==
    IF \E u \in Users : otps[u].flow_id # None
    THEN CHOOSE u \in Users : otps[u].flow_id # None
    ELSE None

\* a lookup by the user the flow id was made for, whatever flow id that
\* user's entry holds now
OtpLookupByUser(otps, state) ==
    IF state \in Tokens /\ issued[state].kind = "otp"
       /\ otps[issued[state].user].flow_id # None
    THEN issued[state].user
    ELSE None

\* the scan "for uid, data in pending_otps.items(): if data.get('flow_id') == state"
OtpLookup(otps, state) ==
    IF \E u \in Users : otps[u].flow_id = state
    THEN CHOOSE u \in Users : otps[u].flow_id = state
    ELSE None

\* ------------------------------------------------------------- identity
UNKNOWN_USER == "Unknown User"
NO_EMAIL == "No email available"
\* the nickname and the email a pending OTP entry was created with
NICKNAME == "nickname"
ENTRY_EMAIL == "email"

\* a Python dict with string keys, and d.get(key, default)
EmptyDict == [k \in {} |-> ""]
Get(d, key, default) == IF key \in DOMAIN d THEN d[key] ELSE default

\* a token is a sequence of symbols, "." among them; an absent (None or
\* empty) token is the empty one
NoToken == <<>>

\* id_token.split('.')
RECURSIVE Split(_)
Split(token) ==
    IF \A k \in 1..Len(token) : token[k] # "." THEN <<token>>
    ELSE LET dot == CHOOSE k \in 1..Len(token) :
                        token[k] = "." /\ \A m \in 1..(k - 1) : token[m] # "."
         IN <<SubSeq(token, 1, dot - 1)>> \o Split(SubSeq(token, dot + 1, Len(token)))

\* json.loads(base64.b64decode(payload).decode('utf-8')): the claims of a
\* payload, or an exception for a payload that is not base64 of JSON
IdClaims == [name |-> "Alice", preferred_username |-> "alice@id"]
DecodePayload(payload) ==
    CASE payload = <<"claims">> -> [raised |-> FALSE, claims |-> IdClaims]
      [] payload = <<"no_claims">> -> [raised |-> FALSE, claims |-> EmptyDict]
      [] OTHER -> [raised |-> TRUE, claims |-> EmptyDict]

\* the token responses without an "error" field: id_token and access_token
\* each present or not, the id_token well-formed or not
IdTokens == {NoToken, <<"header">>, <<"header", ".", "junk", ".", "sig">>,
             <<"header", ".", "no_claims", ".", "sig">>,
             <<"header", ".", "claims", ".", "sig">>}
AccessTokens == {"absent", "bearer"}
TokenResponses == [id_token : IdTokens, access_token : AccessTokens]

\* requests.get(graph_url).json(): the profile, a body without the two
\* fields, or an exception
GraphProfile == [displayName |-> "Alice G", userPrincipalName |-> "alice@graph"]
GraphResponses == {[raised |-> FALSE, data |-> GraphProfile],
                   [raised |-> FALSE, data |-> EmptyDict],
                   [raised |-> TRUE, data |-> EmptyDict]}

\* the response of a provider that sends a well-formed id_token
UsualResponse ==
    [id_token |-> <<"header", ".", "claims", ".", "sig">>, access_token |-> "bearer"]
UsualGraph == [raised |-> FALSE, data |-> GraphProfile]

\* the extraction without its second tier: no id_token means the literals
IdentityNoProfile(result, graph, default_username, default_email) ==
    LET fallback == [username |-> default_username, email |-> default_email,
                     graph_called |-> FALSE]
    IN
    IF result.id_token # NoToken /\ Len(Split(result.id_token)) >= 2
    THEN LET decoded == DecodePayload(Split(result.id_token)[2]) IN
         IF decoded.raised THEN fallback
         ELSE [username |-> Get(decoded.claims, "name", default_username),
               email |-> Get(decoded.claims, "preferred_username", default_email),
               graph_called |-> FALSE]
    ELSE fallback

\* "Extract user info from token": the name and the email the callback goes
\* on with, and whether the Graph API was asked; default_username and
\* default_email are the two literals in handle_auth_callback, the nickname
\* and the email of the pending entry in verify_otp_redirect
Identity(result, graph, default_username, default_email) ==
    LET fallback == [username |-> default_username, email |-> default_email,
                     graph_called |-> FALSE]
    IN
    IF result.id_token # NoToken
    THEN IF Len(Split(result.id_token)) >= 2
         THEN LET decoded == DecodePayload(Split(result.id_token)[2]) IN
              IF decoded.raised THEN fallback
              ELSE [username |-> Get(decoded.claims, "name", default_username),
                    email |-> Get(decoded.claims, "preferred_username", default_email),
                    graph_called |-> FALSE]
         ELSE fallback
    ELSE IF result.access_token # "absent"
         THEN IF graph.raised THEN [fallback EXCEPT !.graph_called = TRUE]
              ELSE [username |-> Get(graph.data, "displayName", default_username),
                    email |-> Get(graph.data, "userPrincipalName", default_email),
                    graph_called |-> TRUE]
         ELSE fallback

\* the job after the identity was extracted (only a token response without
\* an error gets that far)
WithIdentity(job, result, graph, default_username, default_email) ==
    IF job.token_result # "ok" \/ job.pc = "done" THEN job
    ELSE LET id == Identity(result, graph, default_username, default_email) IN
         [job EXCEPT !.token_response = result,
                     !.graph_response = IF id.graph_called THEN graph ELSE @,
                     !.username = id.username, !.email = id.email,
                     !.graph_called = id.graph_called]

\* ------------------------------------------------------------ coroutines
\* the roles of all guilds, as a direct call of the role mutator finds them
Snapshot(roles, held) == [guild_roles |-> roles, member_roles |-> held]
NoSnapshot == Snapshot([g \in Guilds |-> {}],
                       [g \in Guilds |-> [u \in GuildMembers(g) |-> {}]])

NewJob(kind, code, state) ==
    [kind |-> kind, code |-> code, state |-> state, pc |-> "queued",
     user_id |-> None, entry_expired |-> FALSE, token_result |-> "none",
     token_response |-> [id_token |-> NoToken, access_token |-> "absent"],
     graph_response |-> [raised |-> FALSE, data |-> EmptyDict],
     username |-> "unset", email |-> "unset", graph_called |-> FALSE,
     mutator_user |-> None, guild |-> 1, result |-> "pending",
     raised |-> FALSE, events |-> <<>>, before |-> NoSnapshot]

\* outcomes of requests.post(token_url).json(): a token response, a response
\* with an "error" field, or a network / JSON exception
TokenOutcomes == {"ok", "error", "exception"}

\* "return" / "return False" / "return True" of a coroutine
Return(job, value, event) ==
    [job EXCEPT !.pc = "done", !.result = value, !.events = Append(@, event)]

\* the "except Exception" clause that wraps each coroutine body
Caught(job, event) ==
    Return(job, IF job.kind = "otp" THEN "False" ELSE "None", event)

\* the token response handled without the check for its "error" field
AfterExchangeUnchecked(job, outcome) ==
    LET j == [job EXCEPT !.token_result = outcome] IN
    IF outcome = "exception" THEN Caught(j, "exchange_exception")
    ELSE [j EXCEPT !.pc = "notify", !.events = Append(@, "exchange_ok")]

\* the branch on the token response: 'if "error" in result: return'
AfterExchange(job, outcome) ==
    LET j == [job EXCEPT !.token_result = outcome] IN
    CASE outcome = "error" ->
            Return(j, IF job.kind = "otp" THEN "False" ELSE "None", "exchange_error")
      [] outcome = "exception" -> Caught(j, "exchange_exception")
      [] OTHER -> [j EXCEPT !.pc = "notify", !.events = Append(@, "exchange_ok")]

\* handle_auth_callback up to its first await: pop, token request, identity
OAuthResolve(i, result, graph) ==
    /\ i \in 1..Len(jobs)
    /\ jobs[i].kind = "oauth" /\ jobs[i].pc = "queued"
    /\ LET popped == PopOAuth(pending_oauth, jobs[i].state) IN
        /\ pending_oauth' = popped.registry
        /\ IF popped.value = None
           THEN jobs' = [jobs EXCEPT ![i] = Return(@, "None", "unknown_state")]
           ELSE \E outcome \in TokenOutcomes :
                  jobs' = [jobs EXCEPT ![i] =
                      WithIdentity(
                          AfterExchange([@ EXCEPT !.user_id = popped.value,
                                                  !.entry_expired =
                                                      issued[jobs[i].state].overdue,
                                                  !.events = Append(@, "resolved")],
                                        outcome),
                          result, graph, UNKNOWN_USER, NO_EMAIL)]
    /\ UNCHANGED <<adminVars, now, advances, httpVars, pending_otps, issued, discordVars>>

\* verify_otp_redirect up to its first await: scan, token request, identity
OtpResolve(i, result, graph) ==
    /\ i \in 1..Len(jobs)
    /\ jobs[i].kind = "otp" /\ jobs[i].pc = "queued"
    /\ LET uid == OtpLookup(pending_otps, jobs[i].state) IN
        IF uid = None
        THEN jobs' = [jobs EXCEPT ![i] = Return(@, "False", "unknown_state")]
        ELSE \E outcome \in TokenOutcomes :
               jobs' = [jobs EXCEPT ![i] =
                   WithIdentity(
                       AfterExchange([@ EXCEPT !.user_id = uid,
                                               !.entry_expired =
                                                   now - pending_otps[uid].created_at > OTP_TTL,
                                               !.events = Append(@, "resolved")],
                                     outcome),
                       result, graph, NICKNAME, ENTRY_EMAIL)]
    /\ UNCHANGED <<adminVars, now, advances, httpVars, registryVars, discordVars>>

\* "await self._send_admin_verification(...)", then the call of
\* _update_member_roles(user_id) up to its first await
Notify(i) ==
    /\ i \in 1..Len(jobs)
    /\ jobs[i].pc = "notify"
    /\ admin_msgs' = AdminSend(admin_msgs,
                               [type |-> IF jobs[i].kind = "otp" THEN "OTP Verify" ELSE "OAuth",
                                user |-> jobs[i].user_id, token |-> None, job |-> i],
                               admin_channel)
    /\ jobs' = [jobs EXCEPT ![i] = [@ EXCEPT !.pc = "roles",
                                            !.mutator_user = jobs[i].user_id,
                                            !.events = Append(Append(@, "notify"), "mutate")]]
    /\ UNCHANGED <<adminVars, now, advances, httpVars, registryVars, faults, guild_roles,
                   member_roles, admin_channel>>

\* ---------------------------------------------------------- role mutator
\* the Discord calls of one guild iteration that may raise
RoleFailures == {"none", "create_role", "remove_roles", "add_roles"}

\* one iteration of "for guild in self.bot.guilds" for a member of the guild:
\* the roles that exist in the guild afterwards
GuildRolesAfter(roles, fail) ==
    IF VERIFIED \notin roles /\ fail # "create_role"
    THEN roles \cup {VERIFIED}
    ELSE roles

\* a mutator that does one thing per call: it takes the Unverified role away
\* or else adds the Verified role
MemberRolesAfterOneChange(roles, held, fail) ==
    IF VERIFIED \notin roles /\ fail = "create_role" THEN held
    ELSE IF UNVERIFIED \in held
         THEN (IF fail = "remove_roles" THEN held ELSE held \ {UNVERIFIED})
    ELSE IF fail = "add_roles" THEN held
    ELSE held \cup {VERIFIED}

\* a mutator that adds the Verified role and leaves the Unverified role alone
MemberRolesAfterAddOnly(roles, held, fail) ==
    IF VERIFIED \notin roles /\ fail = "create_role" THEN held
    ELSE IF fail = "add_roles" THEN held
    ELSE held \cup {VERIFIED}

\* ... and the marker roles the member holds afterwards
MemberRolesAfter(roles, held, fail) ==
    IF VERIFIED \notin roles /\ fail = "create_role" THEN held
    ELSE IF UNVERIFIED \in roles /\ fail = "remove_roles" THEN held
    ELSE IF fail = "add_roles" THEN held \ {UNVERIFIED}
    ELSE (held \ {UNVERIFIED}) \cup {VERIFIED}

\* a failure that the iteration can meet: the call is made at all
FailureApplies(roles, fail) ==
    CASE fail = "create_role" -> VERIFIED \notin roles
      [] fail = "remove_roles" -> UNVERIFIED \in roles
      [] OTHER -> TRUE

LastGuild == Cardinality(Guilds)

\* what follows the loop: handle_auth_callback returns, verify_otp_redirect
\* goes on to "del self.pending_otps[user_id]"
AfterGuild(job) ==
    IF job.guild < LastGuild THEN [job EXCEPT !.guild = @ + 1]
    ELSE IF job.kind = "otp" THEN [job EXCEPT !.pc = "cleanup"]
    ELSE Return(job, "None", "processed")

\* a mutator without the try/except of the guild loop: a Discord call that
\* raises ends the calling coroutine in its own "except Exception"
UpdateGuildPropagating(i, fail) ==
    /\ i \in 1..Len(jobs)
    /\ jobs[i].pc = "roles"
    /\ IF fail = "none" THEN UNCHANGED faults
       ELSE faults < MaxFaults /\ faults' = faults + 1
    /\ LET g == jobs[i].guild
           u == jobs[i].mutator_user IN
        IF u \in GuildMembers(g)
        THEN /\ FailureApplies(guild_roles[g], fail)
             /\ guild_roles' = [guild_roles EXCEPT ![g] = GuildRolesAfter(@, fail)]
             /\ member_roles' = [member_roles EXCEPT ![g][u] =
                                    MemberRolesAfter(guild_roles[g], @, fail)]
        ELSE /\ fail = "none"
             /\ UNCHANGED <<guild_roles, member_roles>>
    /\ jobs' = [jobs EXCEPT ![i] = IF fail = "none" THEN AfterGuild(@)
                                   ELSE Caught(@, "role_error")]
    /\ UNCHANGED <<adminVars, now, advances, httpVars, registryVars, admin_channel, admin_msgs>>

UpdateGuild(i, fail) ==
    /\ i \in 1..Len(jobs)
    /\ jobs[i].pc = "roles"
    /\ IF fail = "none" THEN UNCHANGED faults
       ELSE faults < MaxFaults /\ faults' = faults + 1
    /\ LET g == jobs[i].guild
           u == jobs[i].mutator_user IN
        IF u \in GuildMembers(g)
        THEN /\ FailureApplies(guild_roles[g], fail)
             /\ guild_roles' = [guild_roles EXCEPT ![g] = GuildRolesAfter(@, fail)]
             /\ member_roles' = [member_roles EXCEPT ![g][u] =
                                    MemberRolesAfter(guild_roles[g], @, fail)]
        ELSE /\ fail = "none"
             /\ UNCHANGED <<guild_roles, member_roles>>
    /\ jobs' = [jobs EXCEPT ![i] = AfterGuild(@)]
    /\ UNCHANGED <<adminVars, now, advances, httpVars, registryVars, admin_channel, admin_msgs>>

\* _update_member_roles(user_id) called on its own, when no other call of it
\* is running: down to the first guild of the loop
update_member_roles(user_id) ==
    /\ Len(jobs) < MaxRequests
    /\ \A i \in 1..Len(jobs) : jobs[i].pc = "done"
    /\ jobs' = Append(jobs, [NewJob("mutator", None, None) EXCEPT
                                !.pc = "roles", !.user_id = user_id,
                                !.mutator_user = user_id,
                                !.before = Snapshot(guild_roles, member_roles),
                                !.events = <<"mutate">>])
    /\ UNCHANGED <<adminVars, now, advances, httpVars, registryVars, discordVars>>

\* "del self.pending_otps[user_id]; return True" (KeyError is caught)
Cleanup(i) ==
    /\ i \in 1..Len(jobs)
    /\ jobs[i].pc = "cleanup"
    /\ IF pending_otps[jobs[i].user_id].flow_id = None
       THEN /\ jobs' = [jobs EXCEPT ![i] = Caught(@, "key_error")]
            /\ UNCHANGED <<pending_otps, http>>
       ELSE /\ pending_otps' = [pending_otps EXCEPT ![jobs[i].user_id] = NoEntry]
            /\ jobs' = [jobs EXCEPT ![i] = Return(@, "True", "cleanup")]
            /\ http' = SizeChanged(http)
    /\ UNCHANGED <<adminVars, now, advances, serverVars, pending_oauth, issued, discordVars>>


\* -------------------------------------------------------- HTTP endpoint
\* keep_alive(loop, manager): sets the two globals and starts the Flask thread
keep_alive(loop, manager) ==
    /\ ~server_started
    /\ bot_loop' = loop
    /\ auth_manager' = manager
    /\ server_started' = TRUE
    /\ UNCHANGED <<adminVars, now, advances, callback_tracker, last_request_time, accepted,
                   nreq, http, registryVars, jobs, discordVars>>

\* apply_global_rate_limit: the time at which the request goes on, after
\* "time.sleep(MIN_REQUEST_INTERVAL - time_since_last + 0.1)" when it came early
GlobalLimitResume(current_time, last) ==
    IF current_time - last < MIN_REQUEST_INTERVAL
    THEN current_time + (MIN_REQUEST_INTERVAL - (current_time - last) + RATE_LIMIT_BUFFER)
    ELSE current_time

\* "[ts for ts in callback_tracker[ip] if current_time - ts < TIME_WINDOW]"
RECURSIVE Recent(_, _)
Recent(stamps, current_time) ==
    IF stamps = <<>> THEN <<>>
    ELSE IF current_time - Head(stamps) < TIME_WINDOW
         THEN <<Head(stamps)>> \o Recent(Tail(stamps), current_time)
         ELSE Recent(Tail(stamps), current_time)

\* the quota test off by one: "len(callback_tracker[ip]) > MAX_CALLBACKS"
RateLimitedLate(recent) == Len(recent) > MAX_CALLBACKS

\* "if len(callback_tracker[ip]) >= MAX_CALLBACKS"
RateLimited(recent) == Len(recent) >= MAX_CALLBACKS

\* the parameter test with "and" for "or"
MissingBothParams(code, state) == code = None /\ state = None

\* "if not code or not state"
MissingParams(code, state) == code = None \/ state = None

\* the readiness test with "or" for "and"
BotReadyEither == auth_manager # "None" \/ bot_loop # "None"

\* "if auth_manager and bot_loop"
BotReady == auth_manager # "None" /\ bot_loop # "None"

Answer(h, status, body) ==
    [h EXCEPT !.pc = "responded", !.status = status, !.body = body]

\* the status and body of a request that is answered before any scheduling,
\* or 0 when the handler goes on to schedule a coroutine
EarlyStatus(limited, code, state, ready) ==
    IF limited THEN 429
    ELSE IF MissingParams(code, state) THEN 400
    ELSE IF ready THEN 0
    ELSE 503

EarlyBody(status) ==
    CASE status = 429 -> "too_many_requests"
      [] status = 400 -> "missing_parameters"
      [] status = 503 -> "not_ready"
      [] OTHER -> "none"

\* a handler that records a request in the tracker only after the parameter
\* check, so that a request answered 400 is not counted
ReceiveCallbackRecordsValid(ip, code, state, limit) ==
    /\ server_started
    /\ http.pc \in {"idle", "responded"}
    /\ nreq < limit
    /\ nreq' = nreq + 1
    /\ LET current_time == GlobalLimitResume(now, last_request_time)
           recent == Recent(callback_tracker[ip], current_time)
           limited == RateLimited(recent)
           status == EarlyStatus(limited, code, state, BotReady)
           counted == ~limited /\ status # 400
           h == [IdleHttp EXCEPT !.ip = ip, !.code = code, !.state = state,
                                 !.gap = now - last_request_time,
                                 !.passed = ~limited]
       IN
        /\ now' = current_time
        /\ last_request_time' = current_time
        /\ callback_tracker' = [callback_tracker EXCEPT ![ip] =
                                   IF counted THEN Append(recent, current_time) ELSE recent]
        /\ accepted' = [accepted EXCEPT ![ip] =
                           IF counted THEN Append(@, current_time) ELSE @]
        /\ http' = IF status # 0
                   THEN Answer(h, status, EarlyBody(status))
                   ELSE [h EXCEPT !.pc = "scanning"]
    /\ UNCHANGED <<adminVars, advances, bot_loop, auth_manager, server_started, registryVars,
                   jobs, discordVars>>

\* GET /callback: before_request, then auth_callback down to the start of the
\* scan over auth_manager.pending_otps
ReceiveCallback(ip, code, state, limit) ==
    /\ server_started
    /\ http.pc \in {"idle", "responded"}
    /\ nreq < limit
    /\ nreq' = nreq + 1
    /\ LET current_time == GlobalLimitResume(now, last_request_time)
           recent == Recent(callback_tracker[ip], current_time)
           limited == RateLimited(recent)
           status == EarlyStatus(limited, code, state, BotReady)
           h == [IdleHttp EXCEPT !.ip = ip, !.code = code, !.state = state,
                                 !.gap = now - last_request_time,
                                 !.passed = ~limited]
       IN
        /\ now' = current_time
        /\ last_request_time' = current_time
        /\ callback_tracker' = [callback_tracker EXCEPT ![ip] =
                                   IF limited THEN recent ELSE Append(recent, current_time)]
        /\ accepted' = [accepted EXCEPT ![ip] =
                           IF limited THEN @ ELSE Append(@, current_time)]
        /\ http' = IF status # 0
                   THEN Answer(h, status, EarlyBody(status))
                   ELSE [h EXCEPT !.pc = "scanning"]
    /\ UNCHANGED <<adminVars, advances, bot_loop, auth_manager, server_started, registryVars,
                   jobs, discordVars>>

\* a routing scan that resolves instead of peeking: it takes the entry it finds
\* out of the registry
ScanDoneConsuming ==
    /\ http.pc = "scanning"
    /\ http' = IF http.scan_broken
               THEN Answer(http, 500, "processing_error")
               ELSE [http EXCEPT !.pc = "sleeping",
                                 !.is_otp = OtpLookup(pending_otps, http.state) # None]
    /\ pending_otps' = [u \in Users |->
                          IF pending_otps[u].flow_id = http.state /\ ~http.scan_broken
                          THEN NoEntry ELSE pending_otps[u]]
    /\ UNCHANGED <<adminVars, now, advances, serverVars, pending_oauth, issued, jobs, discordVars>>

\* the scan "for uid, data in auth_manager.pending_otps.items()" ends: it read
\* the registry without any lock, so either it was disturbed and the outer
\* "except Exception" answers 500, or is_otp is set and "time.sleep(1.0)" begins
ScanDone ==
    /\ http.pc = "scanning"
    /\ http' = IF http.scan_broken
               THEN Answer(http, 500, "processing_error")
               ELSE [http EXCEPT !.pc = "sleeping",
                                 !.is_otp = OtpLookup(pending_otps, http.state) # None]
    /\ UNCHANGED <<adminVars, now, advances, serverVars, registryVars, jobs, discordVars>>

\* after "time.sleep(1.0)": asyncio.run_coroutine_threadsafe(...)
Schedule ==
    /\ http.pc = "sleeping"
    /\ now' = now + PROCESSING_DELAY
    /\ jobs' = Append(jobs, NewJob(IF http.is_otp THEN "otp" ELSE "oauth",
                                   http.code, http.state))
    /\ http' = [http EXCEPT !.pc = "waiting", !.job = Len(jobs) + 1]
    /\ UNCHANGED <<adminVars, advances, bot_loop, auth_manager, server_started, callback_tracker,
                   last_request_time, accepted, nreq, registryVars, discordVars>>

\* a handler that reports the timeout of the wait as a server error
SubmittedStatusOnResult(outcome) == IF outcome = "timeout" THEN 500 ELSE 200

\* the page the handler returns once the coroutine was submitted; the three
\* outcomes of "future.result(timeout=0.5)" (a result, asyncio.TimeoutError,
\* any other exception) all fall through to the same return statement
SubmittedStatus(outcome) == 200
SubmittedBody(outcome) == "authentication_successful"

\* "future.result(timeout=0.5)" returns the coroutine's result at once, then
\* "time.sleep(0.5)" and the "Authentication Successful" page
ResultReady ==
    /\ http.pc = "waiting"
    /\ jobs[http.job].pc = "done"
    /\ now' = now + RESPONSE_DELAY
    /\ http' = Answer(http, SubmittedStatus("result"), SubmittedBody("result"))
    /\ UNCHANGED <<adminVars, advances, bot_loop, auth_manager, server_started,
                   callback_tracker, last_request_time, accepted, nreq, registryVars,
                   jobs, discordVars>>

\* "future.result(timeout=0.5)" times out while the coroutine is still running,
\* then "time.sleep(0.5)" and the same page
ResultTimeout ==
    /\ http.pc = "waiting"
    /\ jobs[http.job].pc # "done"
    /\ now' = now + RESULT_TIMEOUT + RESPONSE_DELAY
    /\ http' = Answer([http EXCEPT !.waited = RESULT_TIMEOUT],
                      SubmittedStatus("timeout"), SubmittedBody("timeout"))
    /\ UNCHANGED <<adminVars, advances, bot_loop, auth_manager, server_started,
                   callback_tracker, last_request_time, accepted, nreq, registryVars,
                   jobs, discordVars>>

\* time passes while no request is being served; the login links that are
\* pending all the while get older by d
Advance(d) ==
    /\ advances < MaxAdvances
    /\ http.pc \in {"idle", "responded"}
    /\ now' = now + d
    /\ advances' = advances + 1
    /\ issued' = [t \in Tokens |->
                    IF pending_oauth[t] # None /\ d > OAUTH_LINK_TTL
                    THEN [issued[t] EXCEPT !.overdue = TRUE]
                    ELSE issued[t]]
    /\ UNCHANGED <<adminVars, httpVars, pending_oauth, pending_otps, jobs, discordVars>>

\* ------------------------------------------------------- admin commands
\* a check that takes every user who may use the bot for an admin
is_adminNotBlacklisted(cfg, user_id) == user_id \notin cfg.blacklisted_users

\* ConfigManager.is_admin(user_id)
is_admin(cfg, user_id) == user_id = cfg.owner_id \/ user_id \in cfg.admin_ids

\* ConfigManager.add_to_list / remove_from_list: the list afterwards and the
\* value returned
add_to_list(list, value) ==
    [list |-> list \cup {value}, returned |-> IF value \notin list THEN "True" ELSE "False"]
remove_from_list(list, value) ==
    [list |-> list \ {value}, returned |-> IF value \in list THEN "True" ELSE "False"]

\* ConfigManager.set(path, value) for a channel path: the value is stored and
\* saved; the method has no return statement
set(cfg, channel_type, value) ==
    [config |-> [cfg EXCEPT !.channels[channel_type] = value], returned |-> "None"]

\* "if success:" on a returned value
Truthy(returned) == returned = "True"

\* the text channels of the guild
TextChannels == {1, 2}

\* _log_to_admin_channel(embed): sent when channels.admin.logs is set
LogConfigured(cfg) == cfg.channels["admin_logs"] # None
log_to_admin_channel(log, cfg, embed) ==
    IF LogConfigured(cfg) THEN log \cup {embed} ELSE log

Reply(command, invoker, text, ephemeral, written, logged) ==
    [seq |-> response.seq + 1, command |-> command, invoker |-> invoker,
     text |-> text, ephemeral |-> ephemeral, written |-> written, logged |-> logged]

\* _check_admin fails: the ephemeral "Access Denied" embed, and the command
\* returns
AccessDenied(command, invoker) ==
    /\ response' = Reply(command, invoker, "Access Denied", TRUE, FALSE, FALSE)
    /\ UNCHANGED <<config, admin_log>>

\* the four list commands after _check_admin: the list operation, the log
\* embed when it changed the list, and the answer
ListCommand(command, invoker, user, field, op, done_text, noop_text) ==
    /\ config' = [config EXCEPT ![field] = op.list]
    /\ admin_log' = IF Truthy(op.returned)
                    THEN log_to_admin_channel(admin_log, config,
                             [title |-> done_text, by |-> invoker, about |-> user])
                    ELSE admin_log
    /\ response' = Reply(command, invoker,
                         IF Truthy(op.returned) THEN done_text ELSE noop_text,
                         FALSE, Truthy(op.returned),
                         Truthy(op.returned) /\ LogConfigured(config))

otherVars == <<now, advances, httpVars, registryVars, jobs, discordVars>>

set_admin(invoker, user) ==
    /\ response.seq < MaxCommands
    /\ IF ~is_admin(config, invoker) THEN AccessDenied("set_admin", invoker)
       ELSE ListCommand("set_admin", invoker, user, "admin_ids",
                        add_to_list(config.admin_ids, user),
                        "Admin Added", "Already Admin")
    /\ UNCHANGED otherVars

remove_admin(invoker, user) ==
    /\ response.seq < MaxCommands
    /\ IF ~is_admin(config, invoker) THEN AccessDenied("remove_admin", invoker)
       ELSE ListCommand("remove_admin", invoker, user, "admin_ids",
                        remove_from_list(config.admin_ids, user),
                        "Admin Removed", "Not Admin")
    /\ UNCHANGED otherVars

blacklist_user(invoker, user) ==
    /\ response.seq < MaxCommands
    /\ IF ~is_admin(config, invoker) THEN AccessDenied("blacklist_user", invoker)
       ELSE ListCommand("blacklist_user", invoker, user, "blacklisted_users",
                        add_to_list(config.blacklisted_users, user),
                        "User Blacklisted", "Already Blacklisted")
    /\ UNCHANGED otherVars

unblacklist_user(invoker, user) ==
    /\ response.seq < MaxCommands
    /\ IF ~is_admin(config, invoker) THEN AccessDenied("unblacklist_user", invoker)
       ELSE ListCommand("unblacklist_user", invoker, user, "blacklisted_users",
                        remove_from_list(config.blacklisted_users, user),
                        "User Unblacklisted", "Not Blacklisted")
    /\ UNCHANGED otherVars

\* set_channel(channel_type, channel): "success = config.set(...)", then the
\* answer chosen by "if success:"
set_channel(invoker, channel_type, channel) ==
    /\ response.seq < MaxCommands
    /\ IF ~is_admin(config, invoker) THEN AccessDenied("set_channel", invoker)
       ELSE LET op == set(config, channel_type, channel) IN
            /\ config' = op.config
            /\ admin_log' = IF Truthy(op.returned)
                            THEN log_to_admin_channel(admin_log, op.config,
                                     [title |-> "Channel Configuration Updated",
                                      by |-> invoker, about |-> channel])
                            ELSE admin_log
            /\ response' = Reply("set_channel", invoker,
                                 IF Truthy(op.returned) THEN "Channel Set"
                                 ELSE "Failed to set the channel",
                                 FALSE, TRUE,
                                 Truthy(op.returned) /\ LogConfigured(op.config))
    /\ UNCHANGED otherVars

\* ------------------------------------------------------- specifications
Codes == {None, 1}
LoopArgs == {"None", "loop"}
ManagerArgs == {"None", "manager"}

BotLoopStep ==
    \/ \E u \in Users : generate_auth_url(u)
    \/ \E u \in Users : start_otp_verification(u)
    \/ \E i \in 1..MaxRequests : OAuthResolve(i, UsualResponse, UsualGraph)
    \/ \E i \in 1..MaxRequests : OtpResolve(i, UsualResponse, UsualGraph)
    \/ \E i \in 1..MaxRequests : Notify(i)
    \/ \E i \in 1..MaxRequests, f \in RoleFailures : UpdateGuild(i, f)
    \/ \E i \in 1..MaxRequests : Cleanup(i)

HandlerStep ==
    \/ ScanDone
    \/ Schedule
    \/ ResultReady
    \/ ResultTimeout

\* the whole system: well-formed callbacks from one address reach a ready bot
Next ==
    \/ keep_alive("loop", "manager")
    \/ Advance(OTP_TTL + 1)
    \/ BotLoopStep
    \/ \E s \in Tokens : ReceiveCallback("ip1", 1, s, MaxRequests)
    \/ HandlerStep

Spec == Init /\ [][Next]_vars

\* the endpoint alone: any callback from any address, while the bot loop is
\* busy with other work, so that no submitted coroutine gets to run
NextEndpoint ==
    \/ \E l \in LoopArgs, m \in ManagerArgs : keep_alive(l, m)
    \/ Advance(TIME_WINDOW)
    \/ \E ip \in IPs, c \in Codes, s \in {None, 1} :
          ReceiveCallback(ip, c, s, MaxLimiterRequests)
    \/ ScanDone
    \/ Schedule
    \/ ResultTimeout

SpecEndpoint == Init /\ [][NextEndpoint]_vars

\* the whole system with its scheduling: the event loop runs every coroutine
\* that is ready, and the HTTP thread goes on with the request it serves;
\* nothing obliges a user to start a flow or to follow a link
LoopStep ==
    \/ \E i \in 1..MaxRequests : OAuthResolve(i, UsualResponse, UsualGraph)
    \/ \E i \in 1..MaxRequests : OtpResolve(i, UsualResponse, UsualGraph)
    \/ \E i \in 1..MaxRequests : Notify(i)
    \/ \E i \in 1..MaxRequests : UpdateGuild(i, "none")
    \/ \E i \in 1..MaxRequests : Cleanup(i)

SpecLive == Init /\ [][Next]_vars /\ WF_vars(LoopStep) /\ WF_vars(HandlerStep)

\* handle_auth_callback(code, state) handed to the event loop, as
\* run_coroutine_threadsafe does for the callback endpoint, once the
\* coroutines handed over before have returned
SubmitOAuth(code, state) ==
    /\ Len(jobs) < MaxRequests
    /\ \A i \in 1..Len(jobs) : jobs[i].pc = "done"
    /\ jobs' = Append(jobs, NewJob("oauth", code, state))
    /\ UNCHANGED <<adminVars, now, advances, httpVars, registryVars, discordVars>>

\* the OAuth coroutine alone, with every shape of token response and of Graph
\* response the provider can send
NextIdentity ==
    \/ \E u \in Users : generate_auth_url(u)
    \/ \E s \in Tokens : SubmitOAuth(1, s)
    \/ \E i \in 1..MaxRequests, r \in TokenResponses, g \in GraphResponses :
          OAuthResolve(i, r, g)
    \/ \E i \in 1..MaxRequests : Notify(i)
    \/ \E i \in 1..MaxRequests : UpdateGuild(i, "none")

SpecIdentity == Init /\ [][NextIdentity]_vars

\* the role mutator alone, called any number of times one after the other,
\* from every assignment of the two marker roles Discord allows (a member
\* holds only roles that exist in the guild)
MarkerRoles == {VERIFIED, UNVERIFIED}

RoleAssignments ==
    {[g \in Guilds |-> IF g = 1 THEN first ELSE second] :
        first \in [GuildMembers(1) -> SUBSET MarkerRoles],
        second \in [GuildMembers(2) -> SUBSET MarkerRoles]}

InitRoles ==
    /\ now = 0
    /\ advances = 0
    /\ faults = 0
    /\ bot_loop = "None"
    /\ auth_manager = "None"
    /\ server_started = FALSE
    /\ callback_tracker = [ip \in IPs |-> <<>>]
    /\ last_request_time = 0 - INITIAL_REQUEST_AGE
    /\ accepted = [ip \in IPs |-> <<>>]
    /\ nreq = 0
    /\ http = IdleHttp
    /\ pending_oauth = [t \in Tokens |-> None]
    /\ pending_otps = [u \in Users |-> NoEntry]
    /\ issued = [t \in Tokens |-> NoIssue]
    /\ jobs = <<>>
    /\ guild_roles \in [Guilds -> SUBSET MarkerRoles]
    /\ member_roles \in RoleAssignments
    /\ \A g \in Guilds : \A u \in GuildMembers(g) :
          member_roles[g][u] \subseteq guild_roles[g]
    /\ admin_channel = "channel"
    /\ admin_msgs = {}
    /\ config = InitialConfig
    /\ admin_log = {}
    /\ response = NoResponse

NextMutator ==
    \/ \E u \in Users : update_member_roles(u)
    \/ \E i \in 1..MaxRequests, f \in RoleFailures : UpdateGuild(i, f)

SpecMutator == InitRoles /\ [][NextMutator]_vars

\* the admin commands alone, invoked by any user on any user or channel
NextAdmin ==
    \/ \E invoker \in Users, user \in Users : set_admin(invoker, user)
    \/ \E invoker \in Users, user \in Users : remove_admin(invoker, user)
    \/ \E invoker \in Users, user \in Users : blacklist_user(invoker, user)
    \/ \E invoker \in Users, user \in Users : unblacklist_user(invoker, user)
    \/ \E invoker \in Users, c \in ChannelTypes, channel \in TextChannels :
          set_channel(invoker, c, channel)

SpecAdmin == Init /\ [][NextAdmin]_vars

\* the server started before the bot is ready: keep_alive was called without
\* the loop or without the manager, users start flows and follow their links
NotReadyArgs ==
    {a \in LoopArgs \X ManagerArgs : a[1] = "None" \/ a[2] = "None"}

NextStartup ==
    \/ \E a \in NotReadyArgs : keep_alive(a[1], a[2])
    \/ Advance(TIME_WINDOW)
    \/ \E u \in Users : generate_auth_url(u)
    \/ \E u \in Users : start_otp_verification(u)
    \/ \E s \in Tokens : ReceiveCallback("ip1", 1, s, MaxLimiterRequests)

SpecStartup == Init /\ [][NextStartup]_vars


\* ================================================================ claims
JobIds == 1..Len(jobs)
Resolved(i) == jobs[i].user_id # None
Notified(i) == \E m \in admin_msgs : m.job = i

\* the jobs started for a callback that carried state t and found its entry
ResolvedFor(kind, t) ==
    {i \in JobIds : jobs[i].kind = kind /\ jobs[i].state = t /\ Resolved(i)}

\* C1: an OAuth state token is single-use: of all handle_auth_callback
\* invocations carrying the state of one generate_auth_url call, at most one
\* obtains the user and goes on to the token exchange; every other one ends
\* without a token exchange, an admin notification or a role change.
C1_OAuthSingleUse ==
    \A t \in Tokens :
        issued[t].kind = "oauth" =>
            /\ Cardinality(ResolvedFor("oauth", t)) <= 1
            /\ \A i \in JobIds :
                  (jobs[i].kind = "oauth" /\ jobs[i].state = t
                     /\ jobs[i].pc = "done" /\ ~Resolved(i)) =>
                        /\ jobs[i].token_result = "none"
                        /\ jobs[i].mutator_user = None
                        /\ ~Notified(i)

\* a replayed OAuth callback: one invocation resolved the token, another one
\* with the same state ended as unknown
C1_Witness ==
    \E i, k \in JobIds :
        /\ i # k
        /\ jobs[i].kind = "oauth" /\ jobs[k].kind = "oauth"
        /\ jobs[i].state = jobs[k].state
        /\ issued[jobs[i].state].kind = "oauth"
        /\ jobs[i].token_result = "ok"
        /\ jobs[k].events = <<"unknown_state">>

\* C2: a pending OTP entry expires after 10 minutes: a callback for an entry
\* older than the TTL performs no token exchange and no role mutation and
\* verify_otp_redirect returns False.
C2_ExpiredOtpRejected ==
    \A i \in JobIds :
        (jobs[i].kind = "otp" /\ jobs[i].entry_expired) =>
            /\ jobs[i].token_result = "none"
            /\ jobs[i].mutator_user = None
            /\ jobs[i].pc = "done" /\ jobs[i].result = "False"

\* C3: an OTP flow id is resolved at most once: of all verify_otp_redirect
\* invocations carrying one flow id, at most one goes past the lookup to the
\* token exchange and the role mutation.
C3_OtpAtMostOnce ==
    \A t \in Tokens :
        issued[t].kind = "otp" =>
            Cardinality({i \in ResolvedFor("otp", t) : jobs[i].mutator_user # None}) <= 1

\* C4: the role mutator runs only for the user the callback's state was
\* registered for, and only after that callback's token exchange succeeded;
\* nobody holds the Verified role without such a run.
C4_RolesOnlyForInitiator ==
    /\ \A i \in JobIds :
          jobs[i].mutator_user # None =>
              /\ jobs[i].token_result = "ok"
              /\ issued[jobs[i].state].user = jobs[i].mutator_user
              /\ issued[jobs[i].state].kind = jobs[i].kind
    /\ \A g \in Guilds : \A u \in GuildMembers(g) :
          VERIFIED \in member_roles[g][u] =>
              \E i \in JobIds : jobs[i].mutator_user = u

\* both kinds of callback have verified their initiator
C4_Witness ==
    \E i, k \in JobIds :
        /\ jobs[i].kind = "oauth" /\ jobs[k].kind = "otp"
        /\ jobs[i].mutator_user # None /\ jobs[k].mutator_user # None
        /\ jobs[i].mutator_user # jobs[k].mutator_user
        /\ \A j \in {i, k} : VERIFIED \in member_roles[1][jobs[j].mutator_user]


\* the request the HTTP thread has answered
Answered == http.pc = "responded"

\* C5 as stated: every /callback request without code or without state is
\* answered with HTTP 400 and schedules nothing.
C5_MissingParamsAlways400 ==
    (Answered /\ (http.code = None \/ http.state = None)) =>
        (http.status = 400 /\ http.job = None)

\* C5 as amended: a /callback request without code or without state that
\* passed the per-address quota is answered at once with HTTP 400 and the
\* "missing required parameters" text, and no coroutine is submitted for it.
C5_MissingParams400 ==
    (http.pc # "idle" /\ http.passed /\ (http.code = None \/ http.state = None)) =>
        /\ Answered
        /\ http.status = 400
        /\ http.body = "missing_parameters"
        /\ http.job = None

\* a request with a code but no state got the 400 answer
C5_Witness ==
    /\ Answered /\ http.passed
    /\ http.code # None /\ http.state = None
    /\ http.status = 400

\* the timestamps accepted for an address before the request now served,
\* not older than the window when that request was handled
AcceptedBefore(ip) ==
    {k \in 1..Len(accepted[ip]) :
        /\ accepted[ip][k] < last_request_time
        /\ last_request_time - accepted[ip][k] < TIME_WINDOW}

\* C6: a /callback request that finds 5 requests of its address accepted in
\* the preceding 120 seconds is answered with HTTP 429 and submits nothing;
\* hence of any 6 requests accepted for one address, the first and the last
\* are at least 120 seconds apart.
C6_PerAddressQuota ==
    /\ (http.pc # "idle" /\ Cardinality(AcceptedBefore(http.ip)) >= MAX_CALLBACKS) =>
          (Answered /\ http.status = 429 /\ ~http.passed /\ http.job = None)
    /\ \A ip \in IPs : \A k \in 1..Len(accepted[ip]) :
          k + MAX_CALLBACKS <= Len(accepted[ip]) =>
              accepted[ip][k + MAX_CALLBACKS] - accepted[ip][k] >= TIME_WINDOW
    /\ \A ip \in IPs : Len(callback_tracker[ip]) <= MAX_CALLBACKS

\* the sixth request of one address inside the window was turned away
C6_Witness ==
    /\ Answered /\ http.status = 429
    /\ Cardinality(AcceptedBefore(http.ip)) = MAX_CALLBACKS

\* C7: a request that arrives less than 1.0 s after the previous one is
\* rejected with HTTP 429 (not delayed and then processed).
C7_EarlyRequestRejected ==
    (Answered /\ http.gap < MIN_REQUEST_INTERVAL) => http.status = 429

\* C8: once the coroutine is submitted the handler waits for it at most 0.5 s
\* and then answers; it can always go on, whether the coroutine has finished
\* or not, and the answer is the same page with status 200 in both cases.
C8_HandlerNeverWaitsForJob ==
    /\ http.pc = "waiting" => ENABLED (ResultReady \/ ResultTimeout)
    /\ (Answered /\ http.job # None) =>
          /\ http.status = 200
          /\ http.body = "authentication_successful"
          /\ http.waited <= RESULT_TIMEOUT

\* the answer went out while the submitted coroutine was still running
C8_Witness ==
    /\ Answered /\ http.job # None
    /\ http.status = 200
    /\ jobs[http.job].pc \in {"notify", "roles", "cleanup"}

\* C9: a callback whose state matches no pending entry is never answered
\* with the authentication-success page.
C9_UnknownStateNotSuccess ==
    (Answered /\ http.job # None /\ jobs[http.job].events = <<"unknown_state">>) =>
        http.body # "authentication_successful"

\* C10: when the token response carries an error field the coroutine ends
\* without raising, without an admin notification and without a role change;
\* verify_otp_redirect returns False.
C10_ProviderErrorEndsQuietly ==
    \A i \in JobIds :
        jobs[i].token_result = "error" =>
            /\ jobs[i].pc = "done"
            /\ ~jobs[i].raised
            /\ jobs[i].result = (IF jobs[i].kind = "otp" THEN "False" ELSE "None")
            /\ jobs[i].mutator_user = None
            /\ ~Notified(i)
            /\ jobs[i].events = <<"resolved", "exchange_error">>

\* both coroutines have met a provider error
C10_Witness ==
    \E i, k \in JobIds :
        /\ jobs[i].kind = "oauth" /\ jobs[k].kind = "otp"
        /\ jobs[i].token_result = "error" /\ jobs[k].token_result = "error"
        /\ jobs[k].result = "False"

\* an id_token of three parts whose payload decodes to the two claims
WellFormedIdToken(id_token) ==
    /\ Len(id_token) = 5
    /\ id_token[2] = "." /\ id_token[4] = "."
    /\ id_token[3] = "claims"

\* C11: three-tier identity fallback of handle_auth_callback, for every
\* successful token response: a well-formed id_token gives the name and the
\* email of its claims and the Graph API is not called; no id_token but an
\* access_token gives those of the Graph profile; neither token gives the
\* literals "Unknown User" and "No email available".
C11_IdentityFallback ==
    \A i \in JobIds :
        (jobs[i].kind = "oauth" /\ jobs[i].token_result = "ok") =>
            LET r == jobs[i].token_response IN
            /\ WellFormedIdToken(r.id_token) =>
                  /\ jobs[i].username = "Alice"
                  /\ jobs[i].email = "alice@id"
                  /\ ~jobs[i].graph_called
            /\ (r.id_token = NoToken /\ r.access_token = "bearer") =>
                  /\ jobs[i].graph_called
                  /\ jobs[i].graph_response = [raised |-> FALSE, data |-> GraphProfile] =>
                        /\ jobs[i].username = "Alice G"
                        /\ jobs[i].email = "alice@graph"
            /\ (r.id_token = NoToken /\ r.access_token = "absent") =>
                  /\ jobs[i].username = "Unknown User"
                  /\ jobs[i].email = "No email available"
                  /\ ~jobs[i].graph_called

\* one callback took its identity from the Graph profile, another one got
\* neither token and fell back to the literals
C11_Witness ==
    \E i, k \in JobIds :
        /\ jobs[i].kind = "oauth" /\ jobs[i].token_result = "ok"
        /\ jobs[i].token_response.id_token = NoToken
        /\ jobs[i].graph_called /\ jobs[i].username = "Alice G"
        /\ jobs[k].kind = "oauth" /\ jobs[k].token_result = "ok"
        /\ jobs[k].token_response = [id_token |-> NoToken, access_token |-> "absent"]
        /\ jobs[k].username = "Unknown User"

\* the direct calls of the role mutator that have returned
MutatorRuns == {i \in JobIds : jobs[i].kind = "mutator" /\ jobs[i].pc = "done"}

\* C12: the role mutation is idempotent: when _update_member_roles(u) has run
\* twice in a row (no Discord call failing), every guild has the same roles
\* and every member holds the same roles as after the first of the two runs.
C12_MutatorIdempotent ==
    \A i \in MutatorRuns :
        (/\ i = Len(jobs) /\ i - 1 \in MutatorRuns
         /\ jobs[i - 1].mutator_user = jobs[i].mutator_user
         /\ faults = 0) =>
            Snapshot(guild_roles, member_roles) = jobs[i].before

\* the mutator ran twice for a user who started with the Unverified role in a
\* guild without a Verified role
C12_Witness ==
    \E i \in MutatorRuns :
        /\ i = Len(jobs) /\ i - 1 \in MutatorRuns
        /\ jobs[i - 1].mutator_user = jobs[i].mutator_user
        /\ faults = 0
        /\ jobs[i - 1].before.guild_roles[1] = {UNVERIFIED}
        /\ jobs[i - 1].before.member_roles[1][jobs[i].mutator_user] = {UNVERIFIED}
        /\ member_roles[1][jobs[i].mutator_user] = {VERIFIED}

\* C13: after _update_member_roles(u) has completed with no Discord call
\* failing, u holds the Verified role and not the Unverified role in every
\* guild u is a member of, and every other member holds the roles held before.
C13_MutatorPostcondition ==
    \A i \in MutatorRuns :
        (i = Len(jobs) /\ faults = 0) =>
            \A g \in Guilds : \A v \in GuildMembers(g) :
                IF v = jobs[i].mutator_user
                THEN /\ VERIFIED \in member_roles[g][v]
                     /\ UNVERIFIED \notin member_roles[g][v]
                ELSE member_roles[g][v] = jobs[i].before.member_roles[g][v]

\* a user who held both marker roles in one guild and none in the other was
\* verified in both, next to a member who keeps the Unverified role
C13_Witness ==
    \E i \in MutatorRuns :
        /\ i = Len(jobs) /\ faults = 0
        /\ jobs[i].mutator_user = 1
        /\ jobs[i].before.member_roles[1][1] = MarkerRoles
        /\ jobs[i].before.guild_roles[2] = {}
        /\ member_roles[1][1] = {VERIFIED} /\ member_roles[2][1] = {VERIFIED}
        /\ member_roles[1][2] = {UNVERIFIED}

\* C14: each generate_auth_url(u) call adds exactly one entry token -> u to
\* pending_oauth, under a token that no earlier call (of generate_auth_url or
\* of start_otp_verification) returned, leaves every other entry of both
\* registries as it was, and returns that token with a URL whose state
\* parameter is the token.
C14_FreshOAuthEntry ==
    [][\A t \in Tokens :
          (/\ issued'[t].kind = "oauth"
           /\ <<issued'[t].kind, issued'[t].user, issued'[t].url>>
                  # <<issued[t].kind, issued[t].user, issued[t].url>>) =>
              /\ issued[t].kind = "free"
              /\ pending_oauth[t] = None
              /\ pending_oauth'[t] = issued'[t].user
              /\ issued'[t].user \in Users
              /\ issued'[t].url.state = t
              /\ \A s \in Tokens \ {t} :
                    pending_oauth'[s] = pending_oauth[s] /\ issued'[s] = issued[s]
              /\ pending_otps' = pending_otps]_vars

\* two links were generated for two users, after an OTP-free start: both
\* entries are pending under different tokens
C14_Witness ==
    /\ issued[1].kind = "oauth" /\ issued[2].kind = "oauth"
    /\ issued[1].user # issued[2].user
    /\ pending_oauth[1] = issued[1].user /\ pending_oauth[2] = issued[2].user
    /\ issued[2].url.state = 2

\* the jobs of the two callback coroutines
CallbackJobs == {i \in JobIds : jobs[i].kind \in {"oauth", "otp"}}

\* the registry still resolves the state a job was started with
StillPending(i) ==
    IF jobs[i].kind = "otp" THEN OtpLookup(pending_otps, jobs[i].state) # None
    ELSE pending_oauth[jobs[i].state] # None

\* C15: every operation on the pending registry runs under one mutex, so the
\* HTTP thread's scan over pending_otps never overlaps an insertion or a
\* removal made on the bot's event loop.
C15_ScanNeverDisturbed == ~http.scan_broken

\* C16: within one verification attempt the steps are ordered resolve,
\* exchange, mutate: the pending entry is out of the registry before the token
\* request is sent, and the token exchange has succeeded before any role of
\* the user is changed.
C16_ResolveExchangeMutate ==
    \A i \in CallbackJobs :
        /\ jobs[i].token_result # "none" => ~StillPending(i)
        /\ jobs[i].mutator_user # None => jobs[i].token_result = "ok"

\* C17: after a callback whose token exchange failed (an error response or an
\* exception) its state or flow id is invalid: the registry no longer resolves
\* it, and no later callback with the same state gets to a token exchange.
C17_FailedExchangeInvalidates ==
    \A i \in CallbackJobs :
        jobs[i].token_result \in {"error", "exception"} =>
            /\ ~StillPending(i)
            /\ \A k \in CallbackJobs :
                  (k > i /\ jobs[k].kind = jobs[i].kind /\ jobs[k].state = jobs[i].state) =>
                      jobs[k].token_result = "none"

\* the flow id t is the one of a pending OTP entry
OtpPending(t) == \E u \in Users : pending_otps[u].flow_id = t

\* ... and that entry is older than the TTL
OtpOverdue(t) ==
    \E u \in Users : /\ pending_otps[u].flow_id = t
                     /\ now - pending_otps[u].created_at > OTP_TTL

\* C18: every pending OTP entry is eventually removed from the registry: one
\* that was not consumed by a successful exchange is expired once it is older
\* than the TTL, even when no callback ever arrives for its flow id.
C18_OtpEntryEventuallyRemoved ==
    \A t \in Tokens : OtpOverdue(t) ~> ~OtpPending(t)

\* C19: on a successful token exchange the role mutation is invoked first and
\* the admin notification is emitted after it.
C19_MutateBeforeNotify ==
    \A i \in CallbackJobs :
        \A k \in 1..Len(jobs[i].events) :
            jobs[i].events[k] = "notify" =>
                \E m \in 1..(k - 1) : jobs[i].events[m] = "mutate"

\* C20: the HTTP thread that serves /callback only reads the registry and
\* submits a coroutine: none of its steps removes or adds a pending entry,
\* changes a role or sends a Discord message, and the jobs already submitted
\* are left alone.
C20_HandlerOnlySubmits ==
    [][(http'.pc # http.pc \/ nreq' # nreq) =>
          /\ pending_oauth' = pending_oauth
          /\ pending_otps' = pending_otps
          /\ guild_roles' = guild_roles
          /\ member_roles' = member_roles
          /\ admin_msgs' = admin_msgs
          /\ \/ jobs' = jobs
             \/ /\ Len(jobs') = Len(jobs) + 1
                /\ SubSeq(jobs', 1, Len(jobs)) = jobs
                /\ jobs'[Len(jobs')].pc = "queued"]_vars

\* the handler has answered an OTP callback whose coroutine has not started:
\* the entry it routed on is still in the registry
C20_Witness ==
    /\ Answered /\ http.is_otp /\ http.job # None
    /\ jobs[http.job].pc = "queued"
    /\ OtpLookup(pending_otps, http.state) # None
    /\ admin_msgs = {} \/ \A m \in admin_msgs : m.type = "OTP Start"

\* C21: the role mutator provisions both marker roles lazily: once
\* _update_member_roles(u) has run (no Discord call failing), every guild u is
\* a member of has the Verified role and the Unverified role.
C21_BothRolesProvisioned ==
    \A i \in MutatorRuns :
        faults = 0 =>
            \A g \in Guilds :
                jobs[i].mutator_user \in GuildMembers(g) =>
                    MarkerRoles \subseteq guild_roles[g]

\* the jobs whose token exchange succeeded and whose admin notification step
\* is behind them
PastNotify(i) ==
    /\ jobs[i].token_result = "ok"
    /\ jobs[i].pc \in {"roles", "cleanup", "done"}

LastEvent(i) == jobs[i].events[Len(jobs[i].events)]

C23_AttemptsIndependent ==
    [][\A i \in CallbackJobs :
          jobs'[i] # jobs[i] =>
              /\ \A t \in Tokens \ {jobs[i].state} :
                    /\ pending_oauth'[t] = pending_oauth[t]
                    /\ \A u \in Users :
                          pending_otps[u].flow_id = t => pending_otps'[u].flow_id = t
              /\ \A g \in Guilds : \A v \in GuildMembers(g) \ {jobs'[i].user_id} :
                    member_roles'[g][v] = member_roles[g][v]]_vars

\* C24: no admin notification contains a complete correlation token (state
\* or flow id); in particular none shows the flow id of a pending entry.
C24_NoFullTokenInAdminLog ==
    \A m \in admin_msgs : m.token = None

\* C25: a Microsoft OAuth login link expires 10 minutes after it is issued:
\* a callback that carries its state later than that is not accepted: no
\* token exchange is made for it and no role is changed.
C25_ExpiredOAuthRejected ==
    \A i \in JobIds :
        (jobs[i].kind = "oauth" /\ jobs[i].entry_expired) =>
            /\ jobs[i].token_result = "none"
            /\ jobs[i].mutator_user = None

\* C26: when set_channel has written the configuration value it answers
\* "Channel Set" (and logs the change when a log channel is configured);
\* "Failed to set the channel" is answered only when nothing was written.
C26_SetChannelReportsSuccess ==
    (response.command = "set_channel" /\ response.written) =>
        /\ response.text = "Channel Set"
        /\ LogConfigured(config) => response.logged

\* C30: admin gating: a command invoked by a user for whom is_admin is false
\* leaves the admin list, the blacklist and the channel settings as they
\* were and sends nothing to the admin log channel; its only effect is the
\* ephemeral "Access Denied" answer.
C30_NonAdminChangesNothing ==
    [][(/\ response'.seq # response.seq
        /\ response'.invoker # config.owner_id
        /\ response'.invoker \notin config.admin_ids) =>
          /\ config' = config
          /\ admin_log' = admin_log
          /\ response'.text = "Access Denied"
          /\ response'.ephemeral]_vars

\* after the owner has changed the configuration, a user who is no admin is
\* denied set_channel
C30_Witness ==
    /\ response.seq = 3
    /\ response.command = "set_channel" /\ response.invoker # config.owner_id
    /\ response.text = "Access Denied"
    /\ config.admin_ids = {}
    /\ config.blacklisted_users # {} \/ \E c \in ChannelTypes : config.channels[c] # None

\* C27: each user has at most one pending OTP entry; when a user starts OTP
\* verification again the new entry replaces the old one: from then on a
\* verify_otp_redirect that looks the old flow id up ends as unknown state,
\* and one that looks the new flow id up resolves to that user.
C27_OtpRestartReplaces ==
    [][\A i \in JobIds :
          (/\ jobs[i].kind = "otp" /\ jobs[i].pc = "queued" /\ jobs'[i].pc # "queued"
           /\ issued[jobs[i].state].kind = "otp") =>
              LET owner == issued[jobs[i].state].user IN
              /\ Cardinality({u \in Users : pending_otps[u].flow_id = jobs[i].state}) <= 1
              /\ IF pending_otps[owner].flow_id = jobs[i].state
                 THEN jobs'[i].user_id = owner
                 ELSE /\ jobs'[i].events = <<"unknown_state">>
                      /\ jobs'[i].result = "False"
                      /\ jobs'[i].token_result = "none"]_vars

\* a user started OTP twice: the callback with the first flow id ended as
\* unknown state, the one with the second flow id resolved to the user
C27_Witness ==
    \E i, k \in JobIds :
        /\ jobs[i].kind = "otp" /\ jobs[k].kind = "otp"
        /\ jobs[i].state = 1 /\ jobs[k].state = 2
        /\ issued[1].kind = "otp" /\ issued[2].kind = "otp"
        /\ issued[1].user = issued[2].user
        /\ jobs[i].events = <<"unknown_state">>
        /\ jobs[k].user_id = issued[2].user

\* the request being served has a code and a state and finds the auth
\* manager or the bot loop not set
WellFormedNotReady ==
    /\ http.pc # "idle"
    /\ http.code # None /\ http.state # None
    /\ auth_manager = "None" \/ bot_loop = "None"

\* every token handed out is still in its registry (an OTP flow id unless
\* the same user has started again)
NothingConsumed ==
    \A t \in Tokens :
        /\ issued[t].kind = "oauth" => pending_oauth[t] = issued[t].user
        /\ issued[t].kind = "otp" => pending_otps[issued[t].user].flow_id >= t

\* C28 as stated: a well-formed /callback request received while the auth
\* manager or the bot loop is not set is answered with HTTP 503.
C28_NotReadyAlways503 ==
    WellFormedNotReady => (Answered /\ http.status = 503)

\* C28 as amended: such a request, when the per-address quota lets it pass,
\* is answered with HTTP 503 at once, no coroutine is scheduled for it and
\* both registries keep every entry, so its state is still pending.
C28_NotReady503 ==
    (WellFormedNotReady /\ http.passed) =>
        /\ Answered
        /\ http.status = 503 /\ http.body = "not_ready"
        /\ http.job = None /\ jobs = <<>>
        /\ NothingConsumed

\* a callback for a pending login link was answered 503 and the link's state
\* is still pending
C28_Witness ==
    /\ WellFormedNotReady /\ http.passed
    /\ http.status = 503
    /\ issued[http.state].kind = "oauth"
    /\ pending_oauth[http.state] = issued[http.state].user
    /\ auth_manager = "manager"

\* the timestamp of the request being served is the newest one recorded for
\* its address
RecordedLast ==
    /\ callback_tracker[http.ip] # <<>>
    /\ callback_tracker[http.ip][Len(callback_tracker[http.ip])] = last_request_time

\* the timestamp of the request being served is nowhere in the tracker
NotRecorded ==
    \A ip \in IPs : \A k \in 1..Len(callback_tracker[ip]) :
        callback_tracker[ip][k] # last_request_time

\* C29: the tracker holds at most 5 timestamps per address; a request
\* answered 429 is not recorded; a request that passes the limiter is
\* recorded, also when it is answered 400 or 503; and a well-formed request
\* that finds 5 requests of its address recorded in the last 120 seconds,
\* malformed or not, is answered 429.
C29_QuotaAccounting ==
    /\ \A ip \in IPs : Len(callback_tracker[ip]) <= MAX_CALLBACKS
    /\ (Answered /\ http.status = 429) => NotRecorded
    /\ (http.pc # "idle" /\ http.status # 429) => (http.passed /\ RecordedLast)
    /\ (Answered /\ http.status \in {400, 503}) => RecordedLast
    /\ (http.pc # "idle" /\ http.code # None /\ http.state # None
          /\ Len(callback_tracker[http.ip]) = MAX_CALLBACKS
          /\ ~RecordedLast) => (Answered /\ http.status = 429)

\* a ready bot has scheduled nothing, so the five requests recorded for the
\* address were all malformed, and the well-formed one after them got 429
C29_Witness ==
    /\ BotReady /\ jobs = <<>>
    /\ Answered /\ http.status = 429
    /\ http.code # None /\ http.state # None
    /\ Len(callback_tracker[http.ip]) = MAX_CALLBACKS
    /\ NotRecorded

====
